---- MODULE Spec2Model ----
(***************************************************************************)
(* Model of "W5 Extra/E01/Survey_drilling3d.py": the DrillData class       *)
(* (validate, get_points, plot_3d) and the segment solver xyz.             *)
(*                                                                         *)
(* Numbers.  Coordinates and displacements are fixed-point integers in     *)
(* thousandths of a unit; sines, cosines and the ratio factor are in       *)
(* thousandths; angles stay in degrees (np.radians is a change of unit,    *)
(* the trigonometric tables below are indexed by degrees).  A curve        *)
(* parameter u is in thousandths too, so u = 1000 is the end of the curve. *)
(* scipy's splprep/splev are library code: a fitted curve is the term      *)
(* [k, knots] and a sampled position is the term [tck, u].                 *)
(***************************************************************************)
EXTENDS Integers, Sequences, FiniteSets, TLC

\* ------------------------------------------------------------- bounds
MaxSurveyRows == 4
MaxTableRows == 3
\* the rows of the tables that are tried under a defective schema
DefectSurveyRows == 2
DefectTableRows == 1

\* ------------------------------------------------------------- inputs
IDs == {"A", "B"}
Feature == "LITH"
Dtypes == {"categorical", "numeric", "categoric"}
None == "None"
NaN == "nan"

CollarColumns == {"ID", "X", "Y", "Z"}
SurveyColumns == {"ID", "AT", "AZ", "DIP"}
TableColumns == {"ID", "FROM", "TO"}

CollarDtypes == [c \in CollarColumns |-> IF c = "ID" THEN "object" ELSE "float64"]
SurveyDtypes == [c \in SurveyColumns |-> IF c = "ID" THEN "object" ELSE "float64"]
TableDtypes == [c \in TableColumns |-> IF c = "ID" THEN "object" ELSE "float64"]

\* A data frame's schema: its column names and the dtype of each.
Schema(cols, bad) ==
    [columns |-> cols,
     dtypes |-> [c \in cols |-> IF c \in bad THEN "int64"
                                 ELSE IF c \in {"ID", Feature} THEN "object"
                                 ELSE "float64"]]

CollarSchemas ==
    {Schema(CollarColumns, {}), Schema(CollarColumns \ {"Z"}, {}),
     Schema(CollarColumns, {"X"})}
SurveySchemas ==
    {Schema(SurveyColumns, {}), Schema(SurveyColumns \ {"DIP"}, {}),
     Schema(SurveyColumns, {"AT"})}
TableSchemas ==
    {Schema(TableColumns \cup {Feature}, {}),
     Schema((TableColumns \ {"TO"}) \cup {Feature}, {}),
     Schema(TableColumns \cup {Feature}, {"FROM"})}

SeqsUpTo(S, n) == UNION {[1..m -> S] : m \in 0..n}

\* Collar positions (thousandths), one row per borehole, IDs unique.
CollarPosition(id) ==
    IF id = "A" THEN <<1000000, 1000000, 500000>> ELSE <<2000000, 1000000, 400000>>
CollarRow(id) ==
    [ID |-> id, X |-> CollarPosition(id)[1], Y |-> CollarPosition(id)[2],
     Z |-> CollarPosition(id)[3]]
CollarTables ==
    {[i \in 1..Len(s) |-> CollarRow(s[i])] :
        s \in {<<"A">>, <<"B">>, <<"A", "B">>, <<"B", "A">>}}

\* Survey tables: the k-th station of a borehole is at AT = CourseLength*(k-1)
\* (AT strictly increasing within a borehole).  Borehole A starts vertical
\* and turns east, then north; borehole B is straight and vertical.
CourseLength == 2
Direction(id, k) ==
    IF id = "B" \/ k = 1 THEN <<0, 90>> ELSE IF k = 2 THEN <<90, 0>> ELSE <<0, 0>>
StationNo(s, i) == Cardinality({j \in 1..i : s[j] = s[i]})
SurveyTables ==
    {[i \in 1..Len(s) |->
        [ID |-> s[i], AT |-> CourseLength * (StationNo(s, i) - 1),
         AZ |-> Direction(s[i], StationNo(s, i))[1],
         DIP |-> Direction(s[i], StationNo(s, i))[2]]] :
        s \in SeqsUpTo(IDs, MaxSurveyRows) \ {<<>>}}

\* Feature intervals: depths along the hole with 0 <= FROM < TO.  Interval
\* number j is [2(j-1), 2j]; the k-th row of a borehole holds interval k
\* (ascending) or interval MaxTableRows + 1 - k (descending: the deepest
\* interval comes first, and the intervals need not start at depth 0).
Values == {"ORE", "WASTE"}
Layouts == {"ascending", "descending"}
IntervalNo(layout, k) == IF layout = "ascending" THEN k ELSE MaxTableRows + 1 - k
FeatureRow(id, j) ==
    [ID |-> id, FROM |-> 2 * (j - 1), TO |-> 2 * j,
     LITH |-> IF j % 2 = 1 THEN "ORE" ELSE "WASTE"]
FeatureTables ==
    {[i \in 1..Len(s) |-> FeatureRow(s[i], IntervalNo(l, StationNo(s, i)))] :
        s \in SeqsUpTo(IDs, MaxTableRows), l \in Layouts}

VARIABLES
    collar, survey, table,          \* the three data frames' rows
    collar_schema, survey_schema, table_schema,
    validated, has_points, feature, feature_dtype, points,
    validation,                     \* how the last validate() ended
    printed,                        \* the last call and its last message or exception
    fig                             \* the traces of the last figure shown

vars ==
    <<collar, survey, table, collar_schema, survey_schema, table_schema,
      validated, has_points, feature, feature_dtype, points, validation,
      printed, fig>>
inputs == <<collar, survey, table, collar_schema, survey_schema, table_schema>>

\* ------------------------------------------------------------ helpers
RECURSIVE Unique(_)
\* pandas Series.unique(): the distinct values in order of first occurrence
Unique(s) ==
    IF s = <<>> THEN <<>>
    ELSE LET r == Unique(SubSeq(s, 1, Len(s) - 1))
             x == s[Len(s)]
         IN IF \E i \in 1..Len(r) : r[i] = x THEN r ELSE Append(r, x)

IdColumn(df) == [i \in 1..Len(df) |-> df[i].ID]
IdSet(df) == {df[i].ID : i \in 1..Len(df)}
SymDiff(a, b) == (a \ b) \cup (b \ a)

\* df[df["ID"] == dh]: the rows of dh in table order
RowsOf(df, dh) == SelectSeq(df, LAMBDA r : r.ID = dh)

\* ----------------------------------------------------------- validate
\* One validation step maps the object's flag to the flag after the step;
\* raised names the exception that ended validate(), "none" if none did.
ValidateColumns(st, schema, columns) ==
    IF st.raised # "none" THEN st
    ELSE LET count == Cardinality(columns) - Cardinality(schema.columns \cap columns)
         IN IF count = 0 THEN [st EXCEPT !.validated = TRUE] ELSE st

ValidateDatatypes(st, schema, dtypes) ==
    IF st.raised # "none" THEN st
    ELSE IF ~st.validated THEN st
    ELSE IF \E c \in DOMAIN dtypes : c \notin schema.columns
         THEN [st EXCEPT !.raised = "KeyError"]
    ELSE LET count == Cardinality({c \in DOMAIN dtypes : schema.dtypes[c] # dtypes[c]})
         IN [st EXCEPT !.validated = (count = 0)]

\* mutant: a borehole with a single survey row is accepted
ValidateSurveyLenient(st) ==
    IF st.raised # "none" THEN st
    ELSE IF ~st.validated THEN st
    ELSE IF "ID" \notin survey_schema.columns THEN [st EXCEPT !.raised = "KeyError"]
    ELSE LET one_row_dh == {dh \in IdSet(survey) : Len(RowsOf(survey, dh)) < 1}
         IN [st EXCEPT !.validated = (Cardinality(one_row_dh) = 0)]

ValidateSurvey(st) ==
    IF st.raised # "none" THEN st
    ELSE IF ~st.validated THEN st
    ELSE IF "ID" \notin survey_schema.columns THEN [st EXCEPT !.raised = "KeyError"]
    ELSE LET one_row_dh == {dh \in IdSet(survey) : Len(RowsOf(survey, dh)) <= 1}
         IN [st EXCEPT !.validated = (Cardinality(one_row_dh) = 0)]

\* mutant: the feature table's IDs are not compared
ValidateIDNoTable(st) ==
    IF st.raised # "none" THEN st
    ELSE IF ~st.validated THEN st
    ELSE LET c == IdSet(collar)
             s == IdSet(survey)
             extra_dh == SymDiff(c, s)
         IN [st EXCEPT !.validated = (Cardinality(extra_dh) = 0)]

ValidateID(st) ==
    IF st.raised # "none" THEN st
    ELSE IF ~st.validated THEN st
    ELSE IF \/ "ID" \notin collar_schema.columns
            \/ "ID" \notin survey_schema.columns
            \/ "ID" \notin table_schema.columns
         THEN [st EXCEPT !.raised = "KeyError"]
    ELSE LET c == IdSet(collar)
             s == IdSet(survey)
             t == IdSet(table)
             extra_dh == SymDiff(c, s) \cup SymDiff(t, s) \cup SymDiff(c, t)
         IN [st EXCEPT !.validated = (Cardinality(extra_dh) = 0)]

ValidateRun ==
    LET s0 == [validated |-> validated, raised |-> "none"]
        s1 == ValidateColumns(s0, collar_schema, CollarColumns)
        s2 == ValidateDatatypes(s1, collar_schema, CollarDtypes)
        s3 == ValidateColumns(s2, survey_schema, SurveyColumns)
        s4 == ValidateDatatypes(s3, survey_schema, SurveyDtypes)
        s5 == ValidateColumns(s4, table_schema, TableColumns)
        s6 == ValidateDatatypes(s5, table_schema, TableDtypes)
        s7 == ValidateSurvey(s6)
    IN ValidateID(s7)

Validate ==
    LET st == ValidateRun
    IN /\ validated' = st.validated
       /\ validation' = IF st.raised # "none" THEN st.raised
                        ELSE IF st.validated THEN "validated" ELSE "failed"
       /\ printed' = [call |-> "validate",
                       msg |-> IF st.raised # "none" THEN st.raised
                               ELSE IF st.validated
                               THEN "The drillings have been validated."
                               ELSE "The validation of the drillings has failed."]
       /\ fig' = <<>>
       /\ UNCHANGED <<inputs, has_points, feature, feature_dtype, points>>

\* ---------------------------------------------------------------- xyz
\* np.sin, np.cos, np.arccos, np.tan on the angles the inputs produce
Sin(deg) == CASE deg = 0 -> 0 [] deg = 90 -> 1000 [] deg = -90 -> -1000
Cos(deg) == CASE deg = 0 -> 1000 [] deg = 90 -> 0 [] deg = -90 -> 0
Arccos(c) == CASE c = 1000 -> 0 [] c = 0 -> 90 [] c = -1000 -> 180
Tan(deg) == CASE deg = 0 -> 0 [] deg = 45 -> 1000
Radians(deg) == (deg * 31416) \div 1800

xyz(d, az1_, dip1_, az2_, dip2_) ==
    LET az1 == az1_
        dip1 == 90 - dip1_
        az2 == az2_
        dip2 == 90 - dip2_
        dl == Arccos(Cos(dip2 - dip1)
                     - (Sin(dip1) * Sin(dip2) * (1000 - Cos(az2 - az1))) \div 1000000)
        rf == IF dl # 0 THEN (2 * Tan(dl \div 2) * 1000) \div Radians(dl) ELSE 1000
        dz == 0 - (d * (Cos(dip1) + Cos(dip2)) * rf) \div 2000
        dy == (d * ((Sin(dip1) * Cos(az1) + Sin(dip2) * Cos(az2)) \div 1000) * rf) \div 2000
        dx == (d * ((Sin(dip1) * Sin(az1) + Sin(dip2) * Sin(az2)) \div 1000) * rf) \div 2000
    IN <<dx, dy, dz>>

\* ---------------------------------------------------------- get_points
Add3(p, q) == <<p[1] + q[1], p[2] + q[2], p[3] + q[3]>>

RECURSIVE Cumsum(_)
\* np.cumsum(knots, axis=0)
Cumsum(s) ==
    IF Len(s) <= 1 THEN s
    ELSE LET r == Cumsum(SubSeq(s, 1, Len(s) - 1))
         IN Append(r, Add3(r[Len(r)], s[Len(s)]))

\* the list knots before the cumulative sum: [0,0,0], then one displacement
\* per pair of consecutive stations
Displacements(dh_survey) ==
    <<<<0, 0, 0>>>> \o
    [i \in 1..(Len(dh_survey) - 1) |->
        xyz(dh_survey[i + 1].AT - dh_survey[i].AT,
            dh_survey[i].AZ, dh_survey[i].DIP,
            dh_survey[i + 1].AZ, dh_survey[i + 1].DIP)]

\* mutant: the knots are not translated by the collar
KnotsNoCollar(dh_collar, dh_survey) == Cumsum(Displacements(dh_survey))

Knots(dh_collar, dh_survey) ==
    LET knots == Cumsum(Displacements(dh_survey))
    IN [i \in 1..Len(knots) |-> Add3(knots[i], dh_collar)]

SplineDegree(dh_survey) == IF Len(dh_survey) > 3 THEN 2 ELSE 1
\* interpolate.splprep(knots.T, k): the fitted curve
Splprep(knots, k) == [k |-> k, knots |-> knots]
\* interpolate.splev(u, tck): the position on the curve at parameter u
Splev(u, tck) == [tck |-> tck, u |-> u]

SeqMax(s) == CHOOSE x \in {s[i] : i \in 1..Len(s)} : \A i \in 1..Len(s) : s[i] <= x
\* mutant: the smallest TO
TotalLengthMin(dh_feature) ==
    CHOOSE x \in {dh_feature[i].TO : i \in 1..Len(dh_feature)} :
        \A i \in 1..Len(dh_feature) : x <= dh_feature[i].TO
\* mutant: the TO of the last row
TotalLengthLast(dh_feature) == dh_feature[Len(dh_feature)].TO
\* length = dh_feature[:, 1].max()
TotalLength(dh_feature) == SeqMax([i \in 1..Len(dh_feature) |-> dh_feature[i].TO])
\* depth / length
Normalise(depth, length) == (depth * 1000) \div length

\* [None, None, None]
NoPosition == [X |-> None, Y |-> None, Z |-> None]
\* mutant: no gap marker after an interval
IntervalPointsNoGap(dtype, tck, a, b, col) ==
    <<[XYZ |-> Splev(a, tck), value |-> col], [XYZ |-> Splev(b, tck), value |-> col]>>
\* mutant: the categorical gap marker carries not-a-number, as the numeric one
IntervalPointsNanGap(dtype, tck, a, b, col) ==
    LET p1 == [XYZ |-> Splev(a, tck), value |-> col]
        p2 == [XYZ |-> Splev(b, tck), value |-> col]
        p3 == [XYZ |-> NoPosition, value |-> NaN]
    IN IF dtype = "categorical" THEN <<p1, p2, p3>> ELSE <<p1, p2>>
\* the points of one interval
IntervalPoints(dtype, tck, a, b, col) ==
    LET p1 == [XYZ |-> Splev(a, tck), value |-> col]
        p2 == [XYZ |-> Splev(b, tck), value |-> col]
        p3 == [XYZ |-> NoPosition, value |-> col]
    IN IF dtype = "categorical" THEN <<p1, p2, p3>> ELSE <<p1, p2>>

RECURSIVE Flatten(_)
Flatten(ss) == IF ss = <<>> THEN <<>> ELSE Head(ss) \o Flatten(Tail(ss))

\* One pass of the loop body for borehole dh: the exception it raises, or
\* the points it appends.
DrapeHole(dh, dtype) ==
    LET dh_collar_rows == RowsOf(collar, dh)
        dh_survey == RowsOf(survey, dh)
        dh_feature == RowsOf(table, dh)
    IN IF dh_collar_rows = <<>> THEN [err |-> "IndexError", pts |-> <<>>]
       ELSE IF Len(dh_survey) > 1 /\ Cardinality(survey_schema.columns) - 1 < 3
            THEN [err |-> "IndexError", pts |-> <<>>]
       ELSE IF Cardinality(collar_schema.columns) - 1 # 3
            THEN [err |-> "ValueError", pts |-> <<>>]
       ELSE LET dh_collar == <<dh_collar_rows[1].X, dh_collar_rows[1].Y,
                               dh_collar_rows[1].Z>>
                knots == Knots(dh_collar, dh_survey)
                k == SplineDegree(dh_survey)
            IN IF Len(knots) <= k THEN [err |-> "TypeError", pts |-> <<>>]
               ELSE IF dh_feature = <<>> THEN [err |-> "ValueError", pts |-> <<>>]
               ELSE LET tck == Splprep(knots, k)
                        length == TotalLength(dh_feature)
                        body == Flatten([i \in 1..Len(dh_feature) |->
                                    IntervalPoints(dtype, tck,
                                        Normalise(dh_feature[i].FROM, length),
                                        Normalise(dh_feature[i].TO, length),
                                        dh_feature[i].LITH)])
                    IN [err |-> "none",
                        pts |-> IF dtype = "numeric"
                                THEN Append(body, [XYZ |-> NoPosition, value |-> NaN])
                                ELSE body]

\* mutant: the boreholes in the order of the collar table
HoleIdCollarOrder == Unique(IdColumn(collar))
\* holeid = self.survey["ID"].unique()
HoleId == Unique(IdColumn(survey))

RECURSIVE DrapeAll(_, _)
\* for dh in holeid: the first exception ends the loop
DrapeAll(holeid, dtype) ==
    IF holeid = <<>> THEN [err |-> "none", pts |-> <<>>]
    ELSE LET first == DrapeHole(Head(holeid), dtype)
         IN IF first.err # "none" THEN first
            ELSE LET rest == DrapeAll(Tail(holeid), dtype)
                 IN IF rest.err # "none" THEN rest
                    ELSE [err |-> "none", pts |-> first.pts \o rest.pts]

\* the whole of get_points after the validated gate
GetPointsRun(dtype) ==
    IF ~(({"ID", "FROM", "TO", Feature}) \subseteq table_schema.columns)
    THEN [err |-> "KeyError", pts |-> <<>>]
    ELSE IF "ID" \notin survey_schema.columns THEN [err |-> "KeyError", pts |-> <<>>]
    ELSE IF dtype \in {"categorical", "numeric"} THEN DrapeAll(HoleId, dtype)
    ELSE [err |-> "none", pts |-> <<>>]

MustValidate == "The information must first be validated through the validate method."
Processing == "Processing information"
Shown == "fig.show()"

GetPointsRefused ==
    /\ validated = FALSE
    /\ printed' = [call |-> "get_points", msg |-> MustValidate]
    /\ fig' = <<>>
    /\ UNCHANGED <<inputs, validated, has_points, feature, feature_dtype, points,
                   validation>>

GetPoints(dtype) ==
    /\ validated # FALSE
    /\ feature' = Feature
    /\ feature_dtype' = dtype
    /\ LET r == GetPointsRun(dtype)
       IN IF r.err # "none"
          THEN /\ printed' = [call |-> "get_points", msg |-> r.err]
               /\ UNCHANGED <<points, has_points>>
          ELSE /\ points' = r.pts
               /\ has_points' = TRUE
               /\ printed' = [call |-> "get_points", msg |-> Processing]
    /\ fig' = <<>>
    /\ UNCHANGED <<inputs, validated, validation>>

\* --------------------------------------------------------------- plot_3d
\* points[points[feature] == value]
SelectByValue(pts, value) == SelectSeq(pts, LAMBDA p : p.value = value /\ value # NaN)

\* the traces added after "Collar" and "Path"
FeatureTraces ==
    IF feature_dtype = "categoric"
    THEN LET values == Unique([i \in 1..Len(points) |-> points[i].value])
         IN [i \in 1..Len(values) |->
                [name |-> values[i], group |-> "feature",
                 pts |-> SelectByValue(points, values[i])]]
    ELSE IF feature_dtype = "numeric"
    THEN <<[name |-> feature, group |-> "feature", pts |-> points]>>
    ELSE <<>>

Plot3dRefused ==
    /\ has_points = FALSE
    /\ printed' = [call |-> "plot_3d",
                    msg |-> "The points for visualization have not yet been generated."]
    /\ fig' = <<>>
    /\ UNCHANGED <<inputs, validated, has_points, feature, feature_dtype, points,
                   validation>>

Plot3d ==
    /\ has_points # FALSE
    /\ fig' = <<[name |-> "Collar", group |-> "drillhole", pts |-> <<>>],
                [name |-> "Path", group |-> "drillhole", pts |-> points]>>
              \o FeatureTraces
    /\ printed' = [call |-> "plot_3d", msg |-> Shown]
    /\ UNCHANGED <<inputs, validated, has_points, feature, feature_dtype, points,
                   validation>>

\* --------------------------------------------------------------- __init__
SchemasOK ==
    /\ collar_schema = Schema(CollarColumns, {})
    /\ survey_schema = Schema(SurveyColumns, {})
    /\ table_schema = Schema(TableColumns \cup {Feature}, {})

Init ==
    /\ collar_schema \in CollarSchemas
    /\ survey_schema \in SurveySchemas
    /\ table_schema \in TableSchemas
    /\ collar \in CollarTables
    /\ survey \in IF SchemasOK THEN SurveyTables
                  ELSE {s \in SurveyTables : Len(s) <= DefectSurveyRows}
    /\ table \in IF SchemasOK THEN FeatureTables
                 ELSE {t \in FeatureTables : Len(t) <= DefectTableRows}
    /\ validated = FALSE
    /\ has_points = FALSE
    /\ feature = None
    /\ feature_dtype = None
    /\ points = <<>>
    /\ validation = "not run"
    /\ printed = [call |-> "__init__",
                   msg |-> "Drillings must be validated before performing the 3D visualization."]
    /\ fig = <<>>

Next ==
    \/ Validate
    \/ GetPointsRefused
    \/ \E dtype \in Dtypes : GetPoints(dtype)
    \/ Plot3dRefused
    \/ Plot3d

Spec == Init /\ [][Next]_vars

\* ====================================================================
\* Properties.  The definitions below restate what the tables say, without
\* using the operators of get_points.
\* ====================================================================
Completed == validation \in {"validated", "failed"}
Produced(dtype) ==
    printed = [call |-> "get_points", msg |-> Processing] /\ feature_dtype = dtype
Draped == Produced("categorical") \/ Produced("numeric")

SurveyHoles == {survey[i].ID : i \in 1..Len(survey)}
NStations(dh) == Cardinality({i \in 1..Len(survey) : survey[i].ID = dh})
NIntervals(dh) == Cardinality({i \in 1..Len(table) : table[i].ID = dh})
FirstRow(dh) == CHOOSE i \in 1..Len(survey) :
                    survey[i].ID = dh /\ \A j \in 1..(i - 1) : survey[j].ID # dh
\* the boreholes in the order in which their IDs occur in the survey table
HolesInSurveyOrder ==
    CHOOSE h \in [1..Cardinality(SurveyHoles) -> SurveyHoles] :
        \A i, j \in DOMAIN h : i < j => FirstRow(h[i]) < FirstRow(h[j])
\* the table rows of a borehole, as row numbers in table order
RECURSIVE RowNumbers(_, _)
RowNumbers(dh, n) ==
    IF n = 0 THEN <<>>
    ELSE IF table[n].ID = dh THEN Append(RowNumbers(dh, n - 1), n)
    ELSE RowNumbers(dh, n - 1)
\* (borehole, table row) of every interval, in the order the claim states
ExpectedIntervals ==
    Flatten([h \in 1..Len(HolesInSurveyOrder) |->
        LET rows == RowNumbers(HolesInSurveyOrder[h], Len(table))
        IN [m \in 1..Len(rows) |-> <<HolesInSurveyOrder[h], rows[m]>>]])
MaxTO(dh) ==
    CHOOSE t \in {table[i].TO : i \in {j \in 1..Len(table) : table[j].ID = dh}} :
        \A i \in 1..Len(table) : table[i].ID = dh => table[i].TO <= t
LastAT(dh) ==
    CHOOSE a \in {survey[i].AT : i \in {j \in 1..Len(survey) : survey[j].ID = dh}} :
        \A i \in 1..Len(survey) : survey[i].ID = dh => survey[i].AT <= a
CollarOf(dh) ==
    LET r == CHOOSE i \in 1..Len(collar) : collar[i].ID = dh
    IN <<collar[r].X, collar[r].Y, collar[r].Z>>

IsGap(p) == p.XYZ = NoPosition
GeometryPoints == SelectSeq(points, LAMBDA p : ~IsGap(p))
\* the borehole a point belongs to: the one whose collar starts the curve the
\* point was sampled on; a gap marker belongs with the point before it
HoleOfPoint(i) ==
    LET g == CHOOSE j \in 1..i :
                 ~IsGap(points[j]) /\ \A m \in (j + 1)..i : IsGap(points[m])
    IN CHOOSE dh \in SurveyHoles : CollarOf(dh) = points[g].XYZ.tck.knots[1]

\* C1: categorical draping appends 3N points per borehole with N intervals,
\* numeric draping 2N + 1; a batch totals 3*sum(N_i), resp. 2*sum(N_i) + holes.
C1_PointCounts ==
    LET sumN == Cardinality({i \in 1..Len(table) : table[i].ID \in SurveyHoles})
        block(dh) == Cardinality({i \in 1..Len(points) : HoleOfPoint(i) = dh})
    IN /\ Produced("categorical") =>
            /\ Len(points) = 3 * sumN
            /\ \A dh \in SurveyHoles : block(dh) = 3 * NIntervals(dh)
       /\ Produced("numeric") =>
            /\ Len(points) = 2 * sumN + Cardinality(SurveyHoles)
            /\ \A dh \in SurveyHoles : block(dh) = 2 * NIntervals(dh) + 1
C1_Witness ==
    /\ Produced("numeric")
    /\ Cardinality(SurveyHoles) = 2
    /\ \E dh \in SurveyHoles : NIntervals(dh) = 2
    /\ Len(points) = 8

\* C2: the points are the boreholes' blocks in survey-table ID order, and in
\* each block the intervals are in the feature table's row order; no point of
\* one borehole lies between two points of another.
C2_OutputOrder ==
    Draped =>
        /\ \A i, j \in 1..Len(points) :
              i < j => FirstRow(HoleOfPoint(i)) <= FirstRow(HoleOfPoint(j))
        /\ Len(GeometryPoints) = 2 * Len(ExpectedIntervals)
        /\ \A m \in 1..Len(ExpectedIntervals) :
              LET dh == ExpectedIntervals[m][1]
                  row == table[ExpectedIntervals[m][2]]
                  p1 == GeometryPoints[2 * m - 1]
                  p2 == GeometryPoints[2 * m]
              IN /\ p1.XYZ.tck.knots[1] = CollarOf(dh)
                 /\ p2.XYZ.tck.knots[1] = CollarOf(dh)
                 /\ p1.value = row.LITH /\ p2.value = row.LITH
                 /\ p1.XYZ.u = (row.FROM * 1000) \div MaxTO(dh)
                 /\ p2.XYZ.u = (row.TO * 1000) \div MaxTO(dh)
C2_Witness ==
    /\ Produced("categorical")
    /\ Len(survey) = 4 /\ survey[1].ID = "B" /\ survey[2].ID = "A"
    /\ Len(table) = 3 /\ table[1].ID = "A" /\ table[2].ID = "B" /\ table[3].ID = "A"
    /\ table[1].LITH # table[3].LITH

\* C3: a trajectory has one knot per survey station, its first knot is the
\* collar position, and each later knot is the previous knot plus the
\* displacement of the corresponding pair of consecutive stations.
C3_Knots ==
    Draped =>
        \A m \in 1..Len(ExpectedIntervals) :
            \A g \in {2 * m - 1, 2 * m} :
                LET dh == ExpectedIntervals[m][1]
                    knots == GeometryPoints[g].XYZ.tck.knots
                    st == [n \in 1..NStations(dh) |->
                             survey[CHOOSE r \in 1..Len(survey) :
                                 /\ survey[r].ID = dh
                                 /\ Cardinality({q \in 1..r : survey[q].ID = dh}) = n]]
                IN /\ Len(knots) = NStations(dh)
                   /\ knots[1] = CollarOf(dh)
                   /\ \A n \in 1..(Len(knots) - 1) :
                         knots[n + 1] =
                            Add3(knots[n],
                                 xyz(st[n + 1].AT - st[n].AT, st[n].AZ, st[n].DIP,
                                     st[n + 1].AZ, st[n + 1].DIP))
C3_Witness ==
    /\ Draped
    /\ NStations("A") = 3
    /\ \E i \in 1..Len(points) :
          /\ ~IsGap(points[i])
          /\ Len(points[i].XYZ.tck.knots) = 3
          /\ points[i].XYZ.tck.knots[3][1] # points[i].XYZ.tck.knots[1][1]

\* C4: after validate() completes, validated is True only if every step
\* passed: the required columns and dtypes of all three tables, more than one
\* survey row per borehole, and equal ID sets.
AllStepsPass ==
    /\ CollarColumns \subseteq collar_schema.columns
    /\ SurveyColumns \subseteq survey_schema.columns
    /\ TableColumns \subseteq table_schema.columns
    /\ \A c \in CollarColumns : collar_schema.dtypes[c] = CollarDtypes[c]
    /\ \A c \in SurveyColumns : survey_schema.dtypes[c] = SurveyDtypes[c]
    /\ \A c \in TableColumns : table_schema.dtypes[c] = TableDtypes[c]
    /\ \A dh \in SurveyHoles : NStations(dh) > 1
    /\ IdSet(collar) = IdSet(survey) /\ IdSet(survey) = IdSet(table)
C4_ValidatedOnlyIfAllPass == (Completed /\ validated) => AllStepsPass

HoleWithoutFeatures == \E dh \in SurveyHoles : NIntervals(dh) = 0
OtherHolesDrapable(bad) ==
    \E dh \in SurveyHoles \ bad :
        NStations(dh) > 1 /\ NIntervals(dh) > 0 /\ dh \in IdSet(collar)
C6_SkipsOnlyThatHole ==
    (/\ Completed
     /\ HoleWithoutFeatures
     /\ OtherHolesDrapable({dh \in SurveyHoles : NIntervals(dh) = 0})
     /\ printed.call = "get_points")
    => (printed.msg = Processing /\ has_points /\ points # <<>>)
\* C6 (amended): with a borehole of the survey table without feature rows, a
\* completed validate() leaves validated False and get_points is refused for
\* the whole batch: no point of any borehole is ever stored.
C6_WholeBatchRefused ==
    HoleWithoutFeatures =>
        /\ points = <<>>
        /\ validation # "validated"
        /\ validation = "failed" =>
              /\ ~validated
              /\ printed.call = "get_points" => printed.msg = MustValidate
C6_Witness ==
    /\ HoleWithoutFeatures
    /\ OtherHolesDrapable({dh \in SurveyHoles : NIntervals(dh) = 0})
    /\ SchemasOK
    /\ validation = "failed"
    /\ printed = [call |-> "get_points", msg |-> MustValidate]

\* C7 (as stated): a borehole with exactly one survey station is excluded
\* alone; every other borehole is still reconstructed and draped.
OneStationHole == \E dh \in SurveyHoles : NStations(dh) = 1
C7_ExcludesOnlyThatHole ==
    (/\ Completed
     /\ OneStationHole
     /\ OtherHolesDrapable({dh \in SurveyHoles : NStations(dh) = 1})
     /\ IdSet(collar) = IdSet(survey) /\ IdSet(survey) = IdSet(table)
     /\ printed.call = "get_points")
    => (printed.msg = Processing /\ has_points /\ points # <<>>)
\* C7 (amended): with a borehole of exactly one survey station, a completed
\* validate() leaves validated False (validate_survey rejects the survey) and
\* get_points is refused for the whole batch: no borehole is reconstructed.
C7_OneStationRejectsBatch ==
    OneStationHole =>
        /\ points = <<>>
        /\ validation # "validated"
        /\ validation = "failed" =>
              /\ ~validated
              /\ printed.call = "get_points" => printed.msg = MustValidate
C7_Witness ==
    /\ OneStationHole
    /\ OtherHolesDrapable({dh \in SurveyHoles : NStations(dh) = 1})
    /\ IdSet(collar) = IdSet(survey) /\ IdSet(survey) = IdSet(table)
    /\ SchemasOK
    /\ validation = "failed"
    /\ printed = [call |-> "get_points", msg |-> MustValidate]

\* C8: categorical output is a sequence of triples [p1, p2, gap] where the gap
\* has no position and carries the interval's value; so in the output, and in
\* its sub-sequence of any one value, two geometry points of different
\* intervals are never adjacent.
IsTripleSeq(s) ==
    /\ Len(s) % 3 = 0
    /\ \A i \in 1..Len(s) : IsGap(s[i]) <=> (i % 3 = 0)
    /\ \A i \in 1..Len(s) : i % 3 = 0 =>
          /\ s[i].value = s[i - 1].value /\ s[i].value = s[i - 2].value
          /\ s[i - 1].XYZ.tck = s[i - 2].XYZ.tck
C8_GapBetweenIntervals ==
    Produced("categorical") =>
        /\ IsTripleSeq(points)
        /\ \A v \in Values :
              /\ IsTripleSeq(SelectByValue(points, v))
              /\ Len(SelectByValue(points, v)) =
                    3 * Cardinality({m \in 1..Len(ExpectedIntervals) :
                                        table[ExpectedIntervals[m][2]].LITH = v})
C8_Witness ==
    /\ Produced("categorical")
    /\ Len(points) = 9
    /\ Len(SelectByValue(points, "ORE")) = 6
    /\ points[1].value = "ORE" /\ points[4].value = "WASTE"

\* the sequence of curve parameters the geometry points were sampled at
ActualParameters == [i \in 1..Len(GeometryPoints) |-> GeometryPoints[i].XYZ.u]
\* L: the length each borehole's depths are divided by
ExpectedParameters(L) ==
    Flatten([m \in 1..Len(ExpectedIntervals) |->
        LET dh == ExpectedIntervals[m][1]
            row == table[ExpectedIntervals[m][2]]
        IN <<(row.FROM * 1000) \div L[dh], (row.TO * 1000) \div L[dh]>>])
\* C9 (as stated): a depth is divided by the AT of the borehole's last survey
\* station, so that depth = last AT maps to u = 1.
C9_DividesByLastAT == Draped => ActualParameters = ExpectedParameters([dh \in SurveyHoles |-> LastAT(dh)])
\* C9 (amended): a depth is divided by the largest TO of the borehole's
\* feature intervals, so that depth = max TO maps to u = 1 and depth 0 to u = 0.
C9_DividesByMaxTO ==
    Draped =>
        /\ ActualParameters = ExpectedParameters([dh \in SurveyHoles |-> MaxTO(dh)])
        /\ \A m \in 1..Len(ExpectedIntervals) :
              LET dh == ExpectedIntervals[m][1]
                  row == table[ExpectedIntervals[m][2]]
              IN /\ row.TO = MaxTO(dh) => ActualParameters[2 * m] = 1000
                 /\ row.FROM = 0 => ActualParameters[2 * m - 1] = 0
C9_Witness ==
    /\ Draped
    /\ \E dh \in SurveyHoles : LastAT(dh) = 4 /\ MaxTO(dh) = 2
    /\ \E i \in 1..Len(points) : ~IsGap(points[i]) /\ points[i].XYZ.u = 1000

\* C10: after get_points(feature, "categorical") plot_3d takes its categorical
\* branch (one feature trace per distinct value), after
\* get_points(feature, "numeric") its numeric branch (one feature trace).
DistinctValues == {points[i].value : i \in 1..Len(points)}
C10_PlotDispatchesOnStoredKind ==
    (printed = [call |-> "plot_3d", msg |-> Shown] /\ points # <<>>) =>
        /\ feature_dtype = "categorical" => Len(fig) = 2 + Cardinality(DistinctValues)
        /\ feature_dtype = "numeric" => Len(fig) = 3
====
